---- MODULE Spec2Model ----
(***************************************************************************)
(* A model of the attack sessions of graphwar (GREATX).                    *)
(*                                                                         *)
(*   - BackdoorAttacker (graphwar/attack/backdoor/backdoor_attacker.py):   *)
(*     the reset / attack / g lifecycle of one session, with the DGL graph *)
(*     edits g() makes on a local copy of the session's graph.             *)
(*                                                                         *)
(*   - the targeted structure attacker (GFAttack; only its driver script   *)
(*     examples/attack/targeted/gf_attack.py is at hand): the session of  *)
(*     the design, reset / attack / data with a budget ledger.            *)
(*                                                                         *)
(*   - CKA (graphwar/utils/cka.py): the forward hooks that record feature  *)
(*     maps and compare(), which sizes and fills the HSIC matrix.          *)
(*                                                                         *)
(* A call is one action.  The outcome of the call (the value returned or   *)
(* the exception raised) is kept in `last`; `pre`, `lastOk`, `everReset`   *)
(* and `first` are history variables that the program does not hold.       *)
(***************************************************************************)
EXTENDS Integers, Sequences, FiniteSets, Bags, TLC

(* ----------------------------- bounds ---------------------------------- *)
\* largest number of nodes of an input graph
MaxNodes == 2
\* largest feature dimensionality of an input graph
MaxFeats == 2
\* number of classes a backdoor may aim at
NumClasses == 2
\* largest number of nodes of a graph given to the targeted attacker
MaxTargetedNodes == 3
\* largest budget asked of the targeted attacker
MaxTargetedBudget == 3
\* largest influence score of a candidate
MaxScore == 1
\* largest number of modules of a model given to CKA
MaxModules == 2
\* largest length of a model1_layers / model2_layers list
MaxListed == 2
\* largest number of compare() calls on one CKA object
MaxCompares == 2

VARIABLES
    graph,          \* self.graph: the attacker's input graph
    num_budgets,    \* self.num_budgets
    targets_class,  \* self.targets_class (a 1-element tensor once bound)
    _trigger,       \* self._trigger
    is_reseted,     \* self.is_reseted
    last,           \* the last call: [op, args, result, ret]
    pre,            \* history: the session, lastOk and the call before the last call
    lastOk,         \* history: the last lifecycle call that succeeded
    everReset,      \* history: reset() has been called at least once
    first,          \* history: the first successful attack and its result
    orig,           \* history: snapshot of the input graph at construction
    t_input,        \* targeted: the input graph [num_nodes, edges]
    t_graph,        \* targeted: the session's working copy of the graph
    t_status,       \* targeted: Unreset, Ready, InProgress or Done
    t_target,       \* targeted: the target node
    t_budget,       \* targeted: the ledger's max_budget
    t_spent,        \* targeted: the ledger's spent counter
    t_scores,       \* targeted: candidate -> score, during an attack only
    t_flips,        \* targeted: the edges flipped by this attack
    t_last,         \* targeted: the last call and its outcome
    model1,         \* CKA: self.model1, the output ndim of each module in forward order
    model2,         \* CKA: self.model2
    model1_layers,  \* CKA: self.model1_layers (None or a list of names)
    model2_layers,  \* CKA: self.model2_layers
    model1_info,    \* CKA: self.model1_info['Layers'], the hooked modules
    model2_info,    \* CKA: self.model2_info['Layers']
    model1_features,\* CKA: self.model1_features, in insertion order
    model2_features,\* CKA: self.model2_features
    hsic_matrix,    \* CKA: self.hsic_matrix (None before the first compare)
    k_calls,        \* CKA history: number of compare() calls made
    k_last          \* CKA: the last call and its outcome

backdoor == <<graph, num_budgets, targets_class, _trigger, is_reseted,
              last, pre, lastOk, everReset, first, orig>>

targeted == <<t_input, t_graph, t_status, t_target, t_budget, t_spent,
              t_scores, t_flips, t_last>>

cka == <<model1, model2, model1_layers, model2_layers, model1_info,
         model2_info, model1_features, model2_features, hsic_matrix,
         k_calls, k_last>>

vars == <<backdoor, targeted, cka>>

\* Python's None, and a value that is not None: an optional value is a set
\* of at most one element
None == {}
Some(x) == {x}
The(s) == CHOOSE x \in s : TRUE
\* targets_class before the first attack() binds it: no element
Unset == <<>>

(* ------------------------------ graphs --------------------------------- *)
\* A DGL graph: nodes 0 .. num_nodes-1, the edges in edge-id order (a
\* multigraph: an edge may occur twice), one feature row per node
\* (feat[i+1] is the row of node i).
FeatRow(i, f) == [k \in 1..f |-> (i + k) % 2]

EdgeLists(n) ==
    { <<>>,
      << <<0, n - 1>>, <<n - 1, 0>> >>,
      << <<0, 0>>, <<n - 1, 0>>, <<n - 1, 0>> >> }

MkGraph(n, f, es) ==
    [num_nodes |-> n, edges |-> es, feat |-> [i \in 1..n |-> FeatRow(i - 1, f)]]

InputGraphs ==
    UNION { { MkGraph(n, f, es) : f \in 1..MaxFeats, es \in EdgeLists(n) } :
            n \in 1..MaxNodes }

\* Attacker.num_nodes / Attacker.num_feats: the sizes of the input graph
num_nodes == graph.num_nodes
num_feats == Len(graph.feat[1])

\* DGLGraph.local_var(): a graph object whose later add_nodes / add_edges
\* rebind its own structure and frames; the graph it was taken from is
\* not changed by them.
local_var(gr) == gr

\* DGLGraph.add_nodes(1, data={feat: row}): one node more, its row appended
add_nodes(gr, row) ==
    [gr EXCEPT !.num_nodes = @ + 1, !.feat = Append(@, row)]

\* DGLGraph.add_edges(u, v): one edge more, with the next edge id
add_edges(gr, u, v) ==
    [gr EXCEPT !.edges = Append(@, <<u, v>>)]

(* ------------------------------ inputs --------------------------------- *)
\* num_budgets: Union[int, float].  [num, den] stands for num/den; den = 1
\* is an int, den > 1 a fraction in (0, 1).
IntBudget(n) == [num |-> n, den |-> 1]
Budgets ==
    { IntBudget(n) : n \in 0..(MaxFeats + 1) }
      \cup { [num |-> 1, den |-> d] : d \in {2, 4} }

Classes == 0..(NumClasses - 1)

\* feature vectors of the graph's width
Triggers(f) == [1..f -> {0, 1}]
NonZeros(row) == Cardinality({k \in DOMAIN row : row[k] # 0})

(* --------------------------- budget check ------------------------------ *)
\* Attacker._check_budget(num_budgets, max_perturbations): an int budget
\* above the maximum is refused, a fraction is resolved against the
\* maximum (rounded down), a resolved budget of 0 is refused.
_check_budget(nb, max_perturbations) ==
    LET resolved == IF nb.den = 1 THEN nb.num
                    ELSE (nb.num * max_perturbations) \div nb.den
    IN  IF resolved > max_perturbations
          THEN [err |-> "BudgetExceeded", value |-> 0]
        ELSE IF resolved <= 0
          THEN [err |-> "EmptyBudget", value |-> 0]
        ELSE [err |-> "ok", value |-> resolved]

(* ------------------------------ session -------------------------------- *)
session ==
    [num_budgets |-> num_budgets, targets_class |-> targets_class,
     trigger |-> _trigger, is_reseted |-> is_reseted, graph |-> graph]

Call(op, args, result, ret) ==
    [op |-> op, args |-> args, result |-> result, ret |-> ret]

\* reset() that forgets to clear the trigger
reset_keeps_trigger ==
    /\ num_budgets' = None
    /\ is_reseted' = TRUE
    /\ UNCHANGED <<graph, targets_class, _trigger>>
    /\ last' = Call("reset", <<>>, "ok", Some("self"))

\* reset() that forgets to clear num_budgets
reset_keeps_budget ==
    /\ _trigger' = None
    /\ is_reseted' = TRUE
    /\ UNCHANGED <<graph, targets_class, num_budgets>>
    /\ last' = Call("reset", <<>>, "ok", Some("self"))

\* BackdoorAttacker.reset()
reset ==
    /\ num_budgets' = None
    /\ _trigger' = None
    /\ is_reseted' = TRUE
    /\ UNCHANGED <<graph, targets_class>>
    /\ last' = Call("reset", <<>>, "ok", Some("self"))

\* attack() that validates the budget before it looks at is_reseted
attack_budget_first(nb, tc) ==
    LET chk == _check_budget(nb, num_feats)
    IN  IF chk.err # "ok"
          THEN /\ last' = Call("attack", <<nb, tc>>, chk.err, None)
               /\ UNCHANGED <<graph, num_budgets, targets_class, _trigger, is_reseted>>
        ELSE IF ~is_reseted
          THEN /\ last' = Call("attack", <<nb, tc>>, "RuntimeError", None)
               /\ UNCHANGED <<graph, num_budgets, targets_class, _trigger, is_reseted>>
        ELSE /\ num_budgets' = Some(chk.value)
             /\ targets_class' = <<tc>>
             /\ is_reseted' = FALSE
             /\ UNCHANGED <<graph, _trigger>>
             /\ last' = Call("attack", <<nb, tc>>, "ok", Some("self"))

\* attack() that leaves is_reseted set
attack_keeps_flag(nb, tc) ==
    IF ~is_reseted
      THEN /\ last' = Call("attack", <<nb, tc>>, "RuntimeError", None)
           /\ UNCHANGED <<graph, num_budgets, targets_class, _trigger, is_reseted>>
      ELSE LET chk == _check_budget(nb, num_feats)
           IN  IF chk.err # "ok"
                 THEN /\ last' = Call("attack", <<nb, tc>>, chk.err, None)
                      /\ UNCHANGED <<graph, num_budgets, targets_class,
                                     _trigger, is_reseted>>
                 ELSE /\ num_budgets' = Some(chk.value)
                      /\ targets_class' = <<tc>>
                      /\ UNCHANGED <<graph, _trigger, is_reseted>>
                      /\ last' = Call("attack", <<nb, tc>>, "ok", Some("self"))

\* attack() that checks the budget against num_nodes + num_feats
attack_wrong_max(nb, tc) ==
    IF ~is_reseted
      THEN /\ last' = Call("attack", <<nb, tc>>, "RuntimeError", None)
           /\ UNCHANGED <<graph, num_budgets, targets_class, _trigger, is_reseted>>
      ELSE LET chk == _check_budget(nb, num_nodes + num_feats)
           IN  IF chk.err # "ok"
                 THEN /\ last' = Call("attack", <<nb, tc>>, chk.err, None)
                      /\ UNCHANGED <<graph, num_budgets, targets_class,
                                     _trigger, is_reseted>>
                 ELSE /\ num_budgets' = Some(chk.value)
                      /\ targets_class' = <<tc>>
                      /\ is_reseted' = FALSE
                      /\ UNCHANGED <<graph, _trigger>>
                      /\ last' = Call("attack", <<nb, tc>>, "ok", Some("self"))

\* attack() that clears is_reseted before it validates the budget
attack_flag_first(nb, tc) ==
    IF ~is_reseted
      THEN /\ last' = Call("attack", <<nb, tc>>, "RuntimeError", None)
           /\ UNCHANGED <<graph, num_budgets, targets_class, _trigger, is_reseted>>
      ELSE LET chk == _check_budget(nb, num_feats)
           IN  IF chk.err # "ok"
                 THEN /\ last' = Call("attack", <<nb, tc>>, chk.err, None)
                      /\ is_reseted' = FALSE
                      /\ UNCHANGED <<graph, num_budgets, targets_class, _trigger>>
                 ELSE /\ num_budgets' = Some(chk.value)
                      /\ targets_class' = <<tc>>
                      /\ is_reseted' = FALSE
                      /\ UNCHANGED <<graph, _trigger>>
                      /\ last' = Call("attack", <<nb, tc>>, "ok", Some("self"))

\* BackdoorAttacker.attack(num_budgets, targets_class)
attack(nb, tc) ==
    IF ~is_reseted
      THEN /\ last' = Call("attack", <<nb, tc>>, "RuntimeError", None)
           /\ UNCHANGED <<graph, num_budgets, targets_class, _trigger, is_reseted>>
      ELSE LET chk == _check_budget(nb, num_feats)
           IN  IF chk.err # "ok"
                 THEN /\ last' = Call("attack", <<nb, tc>>, chk.err, None)
                      /\ UNCHANGED <<graph, num_budgets, targets_class,
                                     _trigger, is_reseted>>
                 ELSE /\ num_budgets' = Some(chk.value)
                      /\ targets_class' = <<tc>>
                      /\ is_reseted' = FALSE
                      /\ UNCHANGED <<graph, _trigger>>
                      /\ last' = Call("attack", <<nb, tc>>, "ok", Some("self"))

\* BackdoorAttacker.trigger()
trigger == _trigger

\* g() that leaves out the self-loop of the trigger node
Splice_no_selfloop(target_node, symmetric) ==
    LET g0 == local_var(graph)
        data == The(trigger)
        g1 == add_nodes(g0, data)
        g2 == add_edges(g1, num_nodes, target_node)
    IN  IF symmetric THEN add_edges(g2, target_node, num_nodes) ELSE g2

\* g() that adds the node without its data (DGL then fills the row with 0)
Splice_no_data(target_node, symmetric) ==
    LET g0 == local_var(graph)
        g1 == add_nodes(g0, [k \in 1..num_feats |-> 0])
        g2 == add_edges(g1, num_nodes, target_node)
        g3 == IF symmetric THEN add_edges(g2, target_node, num_nodes) ELSE g2
    IN  add_edges(g3, num_nodes, num_nodes)

\* The graph g() builds: the trigger node spliced onto a local copy.
Splice(target_node, symmetric) ==
    LET g0 == local_var(graph)
        data == The(trigger)
        g1 == add_nodes(g0, data)
        g2 == add_edges(g1, num_nodes, target_node)
        g3 == IF symmetric THEN add_edges(g2, target_node, num_nodes) ELSE g2
    IN  add_edges(g3, num_nodes, num_nodes)

\* g() that edits self.graph itself instead of a local copy
g_inplace(target_node, symmetric) ==
    /\ UNCHANGED <<num_budgets, targets_class, _trigger, is_reseted>>
    /\ IF trigger = None
         THEN /\ last' = Call("g", <<target_node, symmetric>>, "AttributeError", None)
              /\ UNCHANGED graph
         ELSE /\ graph' = Splice(target_node, symmetric)
              /\ last' = Call("g", <<target_node, symmetric>>, "ok", Some(graph'))

\* BackdoorAttacker.g(target_node, symmetric)
g(target_node, symmetric) ==
    /\ UNCHANGED <<graph, num_budgets, targets_class, _trigger, is_reseted>>
    /\ IF trigger = None
         THEN \* None.view(1, -1)
              last' = Call("g", <<target_node, symmetric>>, "AttributeError", None)
         ELSE last' = Call("g", <<target_node, symmetric>>, "ok",
                           Some(Splice(target_node, symmetric)))

\* The trigger policy of a concrete attacker: after the base attack() has
\* bound the budget it stores a trigger of the graph's feature width with
\* at most num_budgets non-zero entries.
StoreTrigger(t) ==
    /\ ~is_reseted
    /\ num_budgets # None
    /\ NonZeros(t) <= The(num_budgets)
    /\ _trigger' = Some(t)
    /\ UNCHANGED <<graph, num_budgets, targets_class, is_reseted>>
    /\ last' = Call("trigger_policy", <<t>>, "ok", None)

(* ------------------------------ history -------------------------------- *)
\* what the calls did, as an observer of the session records it
TrackCalls ==
    /\ pre' = [s |-> session, lastOk |-> lastOk, op |-> last.op]
    /\ orig' = orig
    /\ everReset' = (everReset \/ last'.op = "reset")
    /\ lastOk' = IF last'.op \in {"reset", "attack"} /\ last'.result = "ok"
                   THEN last'.op ELSE lastOk

\* the first successful attack(): its arguments, the session it left, and
\* whether a later successful attack() had the same arguments
TrackFirst ==
    IF last'.op = "attack" /\ last'.result = "ok"
      THEN IF first = None
             THEN first' = Some([args |-> last'.args, after |-> session',
                                 replayed |-> FALSE])
           ELSE IF The(first).args = last'.args
             THEN first' = Some([The(first) EXCEPT !.replayed = TRUE])
           ELSE first' = first
      ELSE first' = first

(* -------------------------------- CKA ---------------------------------- *)
\* A model is the sequence of its modules in forward order; module i has
\* the name i and model[i] is the number of dimensions of its output.
\* The values of the feature maps are left out: the HSIC of two recorded
\* feature maps is taken to be a finite, non-zero number.
Models == UNION { [1..k -> {2, 3}] : k \in 1..MaxModules }

\* the names a layers list may hold: the module names and one name more,
\* which is the name of no module
LayerNames == 1..(MaxModules + 1)

\* the layers lists given: None, or a list of names (in increasing order)
LayerLists ==
    { None } \cup
    { Some(l) : l \in { q \in UNION { [1..k -> LayerNames] : k \in 0..MaxListed } :
                            \A i \in 1..(Len(q) - 1) : q[i] <= q[i + 1] } }

\* name in layers
Listed(name, layers) == \E i \in DOMAIN layers : layers[i] = name

\* CKA._insert_hooks, for one model: the names of the modules that get a
\* forward hook (appended to model_info['Layers'])
_insert_hooks(model, layers) ==
    IF layers # None
      THEN SelectSeq([i \in 1..Len(model) |-> i], LAMBDA name : Listed(name, The(layers)))
      ELSE [i \in 1..Len(model) |-> i]

\* features[name] = out on a dict kept in insertion order
DictPut(features, name, out) ==
    IF \E i \in DOMAIN features : features[i].name = name
      THEN [i \in DOMAIN features |->
               IF features[i].name = name THEN [name |-> name, out |-> out]
               ELSE features[i]]
      ELSE Append(features, [name |-> name, out |-> out])

\* CKA._log_layer(model, name, layer, inp, out): feats is the pair of the
\* two feature dicts; out is [ndim, call]
_log_layer(feats, model, name, out) ==
    IF out.ndim # 2
      THEN feats
    ELSE IF model = "model1"
      THEN [feats EXCEPT !.f1 = DictPut(@, name, out)]
    ELSE IF model = "model2"
      THEN [feats EXCEPT !.f2 = DictPut(@, name, out)]
    ELSE feats

\* self.model1(*data) / self.model2(*data): the modules run in order and
\* the hook of each hooked module is called with its output
RECURSIVE Forward(_, _, _, _, _, _)
Forward(feats, tag, model, hooks, call, i) ==
    IF i > Len(model) THEN feats
    ELSE Forward(IF Listed(i, hooks)
                   THEN _log_layer(feats, tag, i, [ndim |-> model[i], call |-> call])
                   ELSE feats,
                 tag, model, hooks, call, i + 1)

\* the cells of an N x M matrix
Cells(N, M) == (0..(N - 1)) \X (0..(M - 1))

\* CKA.compare(dataloader1, dataloader2): d1 is the number of batches of
\* dataloader1, d2 is None or the number of batches of dataloader2
compare(d1, d2) ==
    LET dl2 == IF d2 = None THEN d1 ELSE The(d2)
        call == k_calls + 1
        f0 == [f1 |-> <<>>, f2 |-> <<>>]
        fa == IF d1 > 0 THEN Forward(f0, "model1", model1, model1_info, call, 1) ELSE f0
        fb == IF dl2 > 0 THEN Forward(fa, "model2", model2, model2_info, call, 1) ELSE fa
        N == IF model1_layers # None THEN Len(The(model1_layers)) ELSE Len(fb.f1)
        M == IF model2_layers # None THEN Len(The(model2_layers)) ELSE Len(fb.f2)
        \* rows i < len(model1_features) and columns j < len(model2_features)
        \* are written; every other cell stays 0 in all three planes and
        \* becomes 0 / 0 at line 237
        nan == { c \in Cells(N, M) : ~(c[1] < Len(fb.f1) /\ c[2] < Len(fb.f2)) }
    IN  /\ model1_features' = fb.f1
        /\ model2_features' = fb.f2
        /\ k_calls' = call
        /\ UNCHANGED <<model1, model2, model1_layers, model2_layers,
                       model1_info, model2_info>>
        /\ IF (Len(fb.f1) > N /\ M > 0) \/ (Len(fb.f1) > 0 /\ Len(fb.f2) > M)
             THEN \* an index past the matrix
                  /\ hsic_matrix' = Some([N |-> N, M |-> M, nan |-> {}])
                  /\ k_last' = Call("compare", <<d1, d2>>, "IndexError", None)
           ELSE IF nan # {}
             THEN /\ hsic_matrix' = Some([N |-> N, M |-> M, nan |-> nan])
                  /\ k_last' = Call("compare", <<d1, d2>>, "AssertionError", None)
           ELSE /\ hsic_matrix' = Some([N |-> N, M |-> M, nan |-> nan])
                /\ k_last' = Call("compare", <<d1, d2>>, "ok", Some("self"))

\* CKA.__init__(model1, model2, model1_layers=l1, model2_layers=l2)
CKAInit(m1, m2, l1, l2) ==
    /\ model1 = m1
    /\ model2 = m2
    /\ model1_layers = l1
    /\ model2_layers = l2
    /\ model1_info = _insert_hooks(m1, l1)
    /\ model2_info = _insert_hooks(m2, l2)
    /\ model1_features = <<>>
    /\ model2_features = <<>>
    /\ hsic_matrix = None
    /\ k_calls = 0
    /\ k_last = Call("init", <<>>, "ok", None)

\* a CKA object that is not used
CKAIdle == CKAInit(<<2>>, <<2>>, None, None)

\* the targeted session before it is used
TargetedIdle(gr) ==
    /\ t_input = gr
    /\ t_graph = None
    /\ t_status = "Unreset"
    /\ t_target = None
    /\ t_budget = 0
    /\ t_spent = 0
    /\ t_scores = <<>>
    /\ t_flips = {}
    /\ t_last = Call("init", <<>>, "ok", None)

Init ==
    /\ TargetedIdle([num_nodes |-> 1, edges |-> {}])
    /\ CKAIdle
    /\ graph \in InputGraphs
    /\ orig = graph
    /\ num_budgets = None
    /\ targets_class = Unset
    /\ _trigger = None
    /\ is_reseted = FALSE
    /\ last = Call("init", <<>>, "ok", None)
    /\ pre = [s |-> session, lastOk |-> "none", op |-> "init"]
    /\ lastOk = "none"
    /\ everReset = FALSE
    /\ first = None

\* the calls a client may make on the session, in any order
DoReset == reset /\ TrackCalls /\ UNCHANGED <<first, targeted, cka>>
DoAttack ==
    \E nb \in Budgets, tc \in Classes :
        attack(nb, tc) /\ TrackCalls /\ UNCHANGED <<first, targeted, cka>>
DoG ==
    \E t \in 0..(num_nodes - 1), s \in BOOLEAN :
        g(t, s) /\ TrackCalls /\ UNCHANGED <<first, targeted, cka>>
DoStoreTrigger ==
    \E t \in Triggers(num_feats) :
        StoreTrigger(t) /\ TrackCalls /\ UNCHANGED <<first, targeted, cka>>

Next == DoReset \/ DoAttack \/ DoG \/ DoStoreTrigger

Spec == Init /\ [][Next]_vars

\* the same calls, observed for the replay of the first attack
ReplayReset == reset /\ TrackFirst /\ UNCHANGED <<pre, orig, everReset, lastOk, targeted, cka>>
ReplayAttack ==
    \E nb \in Budgets, tc \in Classes :
        attack(nb, tc) /\ TrackFirst /\ UNCHANGED <<pre, orig, everReset, lastOk, targeted, cka>>
ReplayG ==
    \E t \in 0..(num_nodes - 1), s \in BOOLEAN :
        g(t, s) /\ TrackFirst /\ UNCHANGED <<pre, orig, everReset, lastOk, targeted, cka>>
ReplayStoreTrigger ==
    \E t \in Triggers(num_feats) :
        StoreTrigger(t) /\ TrackFirst /\ UNCHANGED <<pre, orig, everReset, lastOk, targeted, cka>>

NextReplay == ReplayReset \/ ReplayAttack \/ ReplayG \/ ReplayStoreTrigger

SpecReplay == Init /\ [][NextReplay]_vars

(* ===================== targeted structure attacker ===================== *)
\* An undirected graph: nodes 0 .. num_nodes-1, edges as sets {u, v}.
TargetedNodes(gr) == 0..(gr.num_nodes - 1)

AllEdges(n) == { {u, v} : u \in 0..(n - 1), v \in 0..(n - 1) } \ { {u} : u \in 0..(n - 1) }

TargetedInputs ==
    UNION { { [num_nodes |-> n, edges |-> es] : es \in SUBSET AllEdges(n) } :
            n \in 2..MaxTargetedNodes }

\* GraphState.clone(): an independent copy
clone(gr) == gr

\* GraphState.add_edge / remove_edge on the candidate edge: a present edge
\* is removed, an absent one added
flip(gr, e) ==
    [gr EXCEPT !.edges = IF e \in @ THEN @ \ {e} ELSE @ \cup {e}]

\* the candidate edges (t, v) of target t: every other node, no self-loop
Eligible(gr, t) == { v \in TargetedNodes(gr) : v # t }

\* the candidates not chosen yet in this invocation
Remaining == { v \in DOMAIN t_scores : {The(t_target), v} \notin t_flips }

\* the best remaining candidate: highest score, ties to the lower node id
Best(cands) ==
    CHOOSE v \in cands :
        \A w \in cands : \/ t_scores[v] > t_scores[w]
                         \/ (t_scores[v] = t_scores[w] /\ v <= w)

\* BudgetLedger.reserve(n) that never refuses
reserve_unchecked(n) == TRUE

\* BudgetLedger.reserve(n): refused when spent + n > max_budget
reserve(n) == t_spent + n <= t_budget

\* reset(): clears the scores, clones the input graph, zeroes the ledger
targeted_reset ==
    /\ t_status # "InProgress"
    /\ t_status' = "Ready"
    /\ t_graph' = Some(clone(t_input))
    /\ t_spent' = 0
    /\ t_scores' = <<>>
    /\ t_flips' = {}
    /\ UNCHANGED <<t_input, t_target, t_budget>>
    /\ t_last' = Call("reset", <<>>, "ok", None)

\* attack(target, B): from Ready only; the budget is validated before
\* anything is changed; the scores of the candidates come from the
\* decomposition of the graph operator (sc)
targeted_attack(t, B, sc) ==
    /\ t_status # "InProgress"
    /\ IF t_status # "Ready"
         THEN /\ t_last' = Call("attack", <<t, B>>, "NotReadyError", None)
              /\ UNCHANGED <<t_input, t_graph, t_status, t_target, t_budget,
                             t_spent, t_scores, t_flips>>
       ELSE IF B <= 0
         THEN /\ t_last' = Call("attack", <<t, B>>, "EmptyBudget", None)
              /\ UNCHANGED <<t_input, t_graph, t_status, t_target, t_budget,
                             t_spent, t_scores, t_flips>>
       ELSE /\ t_status' = "InProgress"
            /\ t_target' = Some(t)
            /\ t_budget' = B
            /\ t_scores' = sc
            /\ UNCHANGED <<t_input, t_graph, t_spent, t_flips>>
            /\ t_last' = Call("attack", <<t, B>>, "running", None)

\* one round of the greedy loop: the best remaining candidate is flipped
\* after the ledger has accepted reserve(1)
targeted_commit ==
    /\ t_status = "InProgress"
    /\ Remaining # {}
    /\ reserve(1)
    /\ LET v == Best(Remaining)
           e == {The(t_target), v}
       IN  /\ t_graph' = Some(flip(The(t_graph), e))
           /\ t_flips' = t_flips \cup {e}
           /\ t_spent' = t_spent + 1
    /\ UNCHANGED <<t_input, t_status, t_target, t_budget, t_scores, t_last>>

\* the loop ends when the candidates ran out or the ledger refuses
targeted_finish ==
    /\ t_status = "InProgress"
    /\ (Remaining = {} \/ ~reserve(1))
    /\ t_status' = "Done"
    /\ t_scores' = <<>>
    /\ UNCHANGED <<t_input, t_graph, t_target, t_budget, t_spent, t_flips>>
    /\ t_last' = Call("attack", t_last.args, "ok", None)

\* data(): once Done, the mutated clone
targeted_data ==
    /\ t_status = "Done"
    /\ UNCHANGED <<t_input, t_graph, t_status, t_target, t_budget, t_spent,
                   t_scores, t_flips>>
    /\ t_last' = Call("data", <<>>, "ok", t_graph)

InitTargeted ==
    /\ \E gr \in TargetedInputs : TargetedIdle(gr)
    /\ CKAIdle
    /\ graph = MkGraph(1, 1, <<>>)
    /\ orig = graph
    /\ num_budgets = None
    /\ targets_class = Unset
    /\ _trigger = None
    /\ is_reseted = FALSE
    /\ last = Call("init", <<>>, "ok", None)
    /\ pre = [s |-> session, lastOk |-> "none", op |-> "init"]
    /\ lastOk = "none"
    /\ everReset = FALSE
    /\ first = None

TReset == targeted_reset /\ UNCHANGED <<backdoor, cka>>
TAttack ==
    \E t \in TargetedNodes(t_input), B \in 0..MaxTargetedBudget :
        \* the scores are computed only by an attack that is let through
        \E sc \in IF t_status = "Ready" /\ B > 0
                     THEN [Eligible(t_input, t) -> 0..MaxScore]
                     ELSE { <<>> } :
            targeted_attack(t, B, sc) /\ UNCHANGED <<backdoor, cka>>
TCommit == targeted_commit /\ UNCHANGED <<backdoor, cka>>
TFinish == targeted_finish /\ UNCHANGED <<backdoor, cka>>
TData == targeted_data /\ UNCHANGED <<backdoor, cka>>

NextTargeted == TReset \/ TAttack \/ TCommit \/ TFinish \/ TData

SpecTargeted == InitTargeted /\ [][NextTargeted]_vars

(* ------------------------------ CKA calls ------------------------------ *)
InitCKA ==
    /\ \E m1 \in Models, m2 \in Models, l1 \in LayerLists, l2 \in LayerLists :
           CKAInit(m1, m2, l1, l2)
    /\ TargetedIdle([num_nodes |-> 1, edges |-> {}])
    /\ graph = MkGraph(1, 1, <<>>)
    /\ orig = graph
    /\ num_budgets = None
    /\ targets_class = Unset
    /\ _trigger = None
    /\ is_reseted = FALSE
    /\ last = Call("init", <<>>, "ok", None)
    /\ pre = [s |-> session, lastOk |-> "none", op |-> "init"]
    /\ lastOk = "none"
    /\ everReset = FALSE
    /\ first = None

KCompare ==
    /\ k_calls < MaxCompares
    /\ \E d1 \in 0..1, d2 \in {None, Some(0), Some(1)} :
           compare(d1, d2) /\ UNCHANGED <<backdoor, targeted>>

NextCKA == KCompare

SpecCKA == InitCKA /\ [][NextCKA]_vars

(* ======================= claims: BackdoorAttacker ======================= *)
Rejections == {"RuntimeError", "BudgetExceeded", "EmptyBudget"}

\* the multiset of the edges of an edge list
EdgeBag(es) ==
    [e \in {es[i] : i \in DOMAIN es} |-> Cardinality({i \in DOMAIN es : es[i] = e})]

\* C1: attack() on a session on which reset() was never called fails with
\* the not-ready error (RuntimeError), whatever the budget and the class,
\* also for a budget that budget validation would refuse.
C1_UnresetAttackNotReady ==
    (last.op = "attack" /\ ~everReset) => last.result = "RuntimeError"

C1_Witness ==
    /\ last.op = "attack"
    /\ ~everReset
    /\ last.args[1] = IntBudget(num_feats + 1)
    /\ last.result = "RuntimeError"

\* C2: attack() succeeds only if the last lifecycle call that succeeded
\* before it was reset(); an attack() after a successful attack() with no
\* reset() in between fails with the not-ready error; after a reset() the
\* not-ready error is not raised.
C2_AttackOnlyAfterReset ==
    last.op = "attack" =>
        /\ (last.result = "ok" => pre.lastOk = "reset")
        /\ (pre.lastOk = "attack" => last.result = "RuntimeError")
        /\ (pre.lastOk = "reset" => last.result # "RuntimeError")

C2_Witness ==
    /\ last.op = "attack"
    /\ pre.lastOk = "attack"
    /\ last.result = "RuntimeError"
    /\ _check_budget(last.args[1], num_feats).err = "ok"

\* C3: on a Ready session an int budget above num_feats is refused with
\* BudgetExceeded, an int budget in 1..num_feats is accepted and stored as
\* requested; the stored budget never exceeds num_feats.
C3_BudgetValidated ==
    /\ (last.op = "attack" /\ pre.s.is_reseted /\ last.args[1].den = 1) =>
          /\ (last.args[1].num > num_feats => last.result = "BudgetExceeded")
          /\ (last.args[1].num \in 1..num_feats =>
                  /\ last.result = "ok"
                  /\ num_budgets = Some(last.args[1].num))
    /\ (num_budgets # None => The(num_budgets) \in 1..num_feats)

C3_Witness ==
    /\ last.op = "attack"
    /\ pre.s.is_reseted
    /\ last.args[1] = IntBudget(num_feats + 1)
    /\ last.result = "BudgetExceeded"

\* C4: a rejected attack() (not ready, or budget refused) leaves the whole
\* session as it was: num_budgets, targets_class, the trigger, is_reseted
\* and the graph; a Ready session whose budget was refused is still Ready.
C4_RejectedAttackNoEffect ==
    (last.op = "attack" /\ last.result \in Rejections) =>
        /\ session = pre.s
        /\ (last.result # "RuntimeError" => is_reseted)

C4_Witness ==
    /\ last.op = "attack"
    /\ last.result = "BudgetExceeded"
    /\ pre.s.targets_class # Unset
    /\ is_reseted

\* C5: with a trigger set, g(target_node, symmetric) returns a graph of
\* num_nodes + 1 nodes; the new node num_nodes carries the trigger as its
\* feature row, the rows of the other nodes are the original ones, and the
\* edges are the original edges plus (num_nodes, target_node), plus the
\* self-loop (num_nodes, num_nodes), plus (target_node, num_nodes) exactly
\* when symmetric.
C5_SpliceShape ==
    (last.op = "g" /\ _trigger # None) =>
        /\ last.result = "ok"
        /\ LET r == The(last.ret)
               t == last.args[1]
               n == orig.num_nodes
               added == << <<n, t>>, <<n, n>> >>
                          \o (IF last.args[2] THEN << <<t, n>> >> ELSE <<>>)
           IN  /\ r.num_nodes = n + 1
               /\ Len(r.feat) = n + 1
               /\ r.feat[n + 1] = The(_trigger)
               /\ \A i \in 1..n : r.feat[i] = orig.feat[i]
               /\ EdgeBag(r.edges) = EdgeBag(orig.edges) (+) EdgeBag(added)

C5_Witness ==
    /\ last.op = "g"
    /\ last.result = "ok"
    /\ last.args[2] = FALSE
    /\ Len(orig.edges) > 0
    /\ last.args[1] > 0

\* C6: the input graph is never changed: after any calls it has the nodes,
\* edges and feature rows of the snapshot taken at construction, and every
\* g() that returns, returns a graph of num_nodes + 1 nodes.
C6_InputGraphUntouched ==
    /\ graph = orig
    /\ (last.op = "g" /\ last.result = "ok") =>
           The(last.ret).num_nodes = orig.num_nodes + 1

C6_Witness ==
    /\ last.op = "g"
    /\ last.result = "ok"
    /\ pre.op = "g"
    /\ graph = orig

\* C7 as stated: once the session is Done (reset(), then a successful
\* attack()), g() returns the graph and does not fail; after reset() with no
\* attack() since, no trigger is held.
C7_DoneGReturns ==
    /\ (last.op = "g" /\ lastOk = "attack") => last.result = "ok"
    /\ (lastOk = "reset" => _trigger = None)

\* C7 amended: once the session is Done, g() returns the graph with the
\* trigger node exactly when a trigger has been stored since the attack(),
\* and fails (AttributeError) when none has; after reset() with no attack()
\* since, no trigger is held.
C7_DoneGReturnsWithTrigger ==
    /\ (last.op = "g" /\ lastOk = "attack") =>
          /\ (_trigger # None =>
                 /\ last.result = "ok"
                 /\ The(last.ret).num_nodes = num_nodes + 1
                 /\ The(last.ret).feat[num_nodes + 1] = The(_trigger))
          /\ (_trigger = None => last.result = "AttributeError")
    /\ (lastOk = "reset" => _trigger = None)

C7_Witness ==
    /\ last.op = "g"
    /\ lastOk = "attack"
    /\ last.result = "ok"
    /\ NonZeros(The(_trigger)) > 0

\* C8: reset() from any state clears num_budgets and the trigger, sets
\* is_reseted, leaves the graph alone and returns the attacker; a reset()
\* right after a reset() changes nothing.
C8_ResetClears ==
    last.op = "reset" =>
        /\ num_budgets = None
        /\ _trigger = None
        /\ is_reseted
        /\ graph = pre.s.graph
        /\ last.result = "ok"
        /\ last.ret = Some("self")
        /\ (pre.op = "reset" => session = pre.s)

C8_Witness ==
    /\ last.op = "reset"
    /\ pre.s.trigger # None
    /\ pre.s.num_budgets # None
    /\ ~pre.s.is_reseted

\* C9: a successful attack(b, c) leaves the session as the first successful
\* attack(b, c) on this graph left it (num_budgets, targets_class, trigger,
\* is_reseted, graph), whatever ran in between, so g() builds the same graph
\* from it: nothing of an earlier run is left in the later one.
C9_ReplaySameResult ==
    (last.op = "attack" /\ last.result = "ok" /\ first # None
        /\ The(first).args = last.args) =>
        session = The(first).after

C9_Witness ==
    /\ last.op = "attack"
    /\ last.result = "ok"
    /\ first # None
    /\ The(first).args = last.args
    /\ The(first).replayed

(* ================== claims: targeted structure attacker ================= *)
Min(a, b) == IF a <= b THEN a ELSE b
SymDiff(A, B) == (A \ B) \cup (B \ A)

\* C10: when attack() of the targeted attacker completes, the number of
\* edge flips committed equals spent and equals min(B, number of eligible
\* candidates), all flips are at the target, and the attack ended without
\* an error (the only call refused on a Done session is a further attack());
\* spent never exceeds B in any state.
C10_SpentIsMinBudgetEligible ==
    /\ (t_status \in {"InProgress", "Done"} => t_spent <= t_budget)
    /\ t_spent = Cardinality(t_flips)
    /\ t_status = "Done" =>
          /\ t_last.result \in {"ok", "NotReadyError"}
          /\ Cardinality(SymDiff(The(t_graph).edges, t_input.edges)) = t_spent
          /\ t_spent = Min(t_budget, t_input.num_nodes - 1)
          /\ \A e \in t_flips : The(t_target) \in e

C10_Witness ==
    /\ t_status = "Done"
    /\ t_budget > t_input.num_nodes - 1
    /\ t_spent = t_input.num_nodes - 1
    /\ t_spent > 1

(* ============================= claims: CKA ============================== *)
\* C11: after compare() the matrix is N x M with N and M the numbers of
\* feature maps the forward hooks recorded for model1 and model2 in that
\* call, every cell is filled from a recorded feature map (none is left
\* 0 / 0), with the layers lists None or given, and no feature map of an
\* earlier compare() call is among the recorded ones.
C11_MatrixMatchesRecorded ==
    k_last.op = "compare" =>
        /\ The(hsic_matrix).N = Len(model1_features)
        /\ The(hsic_matrix).M = Len(model2_features)
        /\ The(hsic_matrix).nan = {}
        /\ k_last.result = "ok"
        /\ \A i \in DOMAIN model1_features : model1_features[i].out.call = k_calls
        /\ \A j \in DOMAIN model2_features : model2_features[j].out.call = k_calls

====
